---- MODULE Spec2Model ----
(***************************************************************************)
(* Model of the data migration engine (scripts/migrate-mongo-to-sqlite.ts) *)
(* and of the backup / restore script (scripts/backup-restore.sh).         *)
(*                                                                         *)
(* Part I  : MongoToSQLiteMigrator.migrate(), one step per await point of  *)
(*           the per-record loops.                                         *)
(* Part II : backup-restore.sh, one step per command of the functions.     *)
(***************************************************************************)
EXTENDS Integers, Sequences, FiniteSets, TLC

(***************************************************************************)
(* Bounds of the model.                                                    *)
(***************************************************************************)
\* Source identifiers (ObjectId strings) and prompt keys are 1..MaxSrcId.
MaxSrcId == 2
\* Size of the data a run starts from: documents of the source, entries of
\* their textbooks[] lists and rows already in the target, all together.
MaxSize == 4

SrcIds == 1..MaxSrcId

VARIABLES
  source,      \* the MongoDB snapshot the run reads
  target,      \* the SQLite store behind the Prisma client (one field per table)
  target0,     \* history: the target store when migrate() was called
  idMapping,   \* this.idMapping : source id -> target id
  pc,          \* position of migrate()
  idx,         \* loop position in the collection being iterated
  refIdx,      \* loop position in passageSet.textbooks (establishRelationships)
  nextUuid,    \* number of uuidv4() values drawn so far
  failure,     \* the error migrate() rethrows, or NoError
  warnings,    \* console.warn lines emitted so far
  mongoConn,   \* state of this.mongoClient
  prismaConn,  \* state of this.prisma
  closeCalls   \* number of close() / $disconnect() calls made so far

migVars == <<source, target, target0, idMapping, pc, idx, refIdx, nextUuid,
             failure, warnings, mongoConn, prismaConn, closeCalls>>

VARIABLES
  live,          \* the file at DATABASE_PATH, or NoFile
  dbBackups,     \* ${BACKUP_BASE_PATH}/database/<name>.db, by name
  safetyCopy,    \* ${DATABASE_PATH}.pre-restore-<timestamp> of this invocation
  service,       \* the pm2 process edutech-api
  sqliteInstalled, \* `command -v sqlite3` succeeds
  schemaFile,    \* ${PROJECT_PATH}/prisma/schema.prisma exists
  shPc,          \* position of the script
  shCmd,         \* the command line of this invocation
  exitStatus,    \* exit status of the script once shPc = "exit"
  live0,         \* history: the live store when the script was invoked
  service0,      \* history: the API service when the script was invoked
  checked        \* history: the store the integrity check of this invocation read

shVars == <<live, dbBackups, safetyCopy, service, sqliteInstalled, schemaFile,
            shPc, shCmd, exitStatus, live0, service0, checked>>

VARIABLES
  backupDirs,    \* ls of ${BACKUP_BASE_PATH}/<type>: entries by age rank
  backupDirs0,   \* history: backupDirs when the script was invoked
  reported       \* the "Would delete:" lines written so far

clVars == <<backupDirs, backupDirs0, reported>>

VARIABLES
  runs,          \* number of invocations of the script begun so far
  backedUp       \* history: by name, the live store a backup --db-only that
                 \* ended with status 0 was invoked on

rtVars == <<runs, backedUp>>

VARIABLES
  filesDir,      \* $FILES_PATH: "missing", "readable", "unreadable", or
                 \* "restored" (extracted from a files archive)
  filesBackups,  \* ${BACKUP_BASE_PATH}/files/<name>.tar.gz, by name
  fullBackups,   \* ${BACKUP_BASE_PATH}/full/<name>.tar.gz, by name
  bundleDir,     \* ${BACKUP_BASE_PATH}/full/<name>/ of this invocation
  dbBackupText,  \* backup_full: the value of $db_backup
  backupPath     \* main: the value of $backup_path

fbVars == <<filesDir, filesBackups, fullBackups, bundleDir, dbBackupText,
            backupPath>>

\* What the steps of backup --db-only and restore --db-only leave alone.
restVars == <<clVars, rtVars, fbVars>>

\* Everything backup-restore.sh reads or writes.
scriptVars == <<shVars, restVars>>

vars == <<migVars, scriptVars>>

(***************************************************************************)
(* Values.                                                                 *)
(***************************************************************************)
NoError == [cause |-> "none", kind |-> "none", names |-> {}, counts |-> <<>>]

\* uuidv4(): the n-th value drawn; values are never repeated.
Uuid(n) == <<"uuid", n>>

\* Map.get() of a key that was never set.
Undefined == <<"undefined", 0>>

\* Identifiers of rows that were in the target before the run.
PreId(k) == <<"pre", k>>

Kinds == {"textbooks", "passagesets", "questions", "systemprompts",
          "systempromptversions"}

\* The empty SQLite schema (after `prisma db push`).
EmptyTarget ==
  [textbook |-> {}, passageSet |-> {}, question |-> {}, systemPrompt |-> {},
   systemPromptVersion |-> {}, passageSetTextbook |-> <<>>]

(***************************************************************************)
(* Sequences helpers.                                                      *)
(***************************************************************************)
SeqsUpTo(S, n) == UNION {[1..k -> S] : k \in 0..n}

Range(s) == {s[i] : i \in DOMAIN s}

IsInjective(s) == \A i, j \in DOMAIN s : s[i] = s[j] => i = j

\* Number of rows of the junction table equal to row.
CountRows(s, row) == Cardinality({i \in DOMAIN s : s[i] = row})

Min(a, b) == IF a < b THEN a ELSE b

RECURSIVE SumLens(_, _)
\* Total length of the sequences f[1], ..., f[k].
SumLens(f, k) == IF k = 0 THEN 0 ELSE Len(f[k]) + SumLens(f, k - 1)

\* Sequences of pairwise distinct source identifiers of length at most n
\* (_id is unique within a MongoDB collection).
IdSeqs(n) == {s \in SeqsUpTo(SrcIds, Min(n, MaxSrcId)) : IsInjective(s)}

(***************************************************************************)
(* The source snapshot.  A MongoPassageSet is modelled by the fields the   *)
(* migrator reads: _id, qrCode and textbooks[]; a MongoQuestion by setId;  *)
(* a MongoSystemPrompt by key.  Each source PassageSet carries its own     *)
(* access code (qrCode = _id).                                             *)
(***************************************************************************)
PassageSetSeqs(b) ==
  UNION { { [i \in 1..Len(ids) |->
               [_id |-> ids[i], qrCode |-> ids[i], textbooks |-> refs[i]]] :
            refs \in {f \in [1..Len(ids) -> SeqsUpTo(SrcIds, b - Len(ids))] :
                        SumLens(f, Len(ids)) <= b - Len(ids)} } :
          ids \in IdSeqs(b) }

PassageSetsSize(ps) ==
  Len(ps) + SumLens([i \in 1..Len(ps) |-> ps[i].textbooks], Len(ps))

SourceSize(s) ==
  Len(s.textbooks) + PassageSetsSize(s.passagesets) + Len(s.questions)
    + Len(s.systemprompts) + Len(s.versions)

(***************************************************************************)
(* Rows the target may hold before the run (initializeSQLite creates no    *)
(* store and empties none): at most one row per table, with the foreign    *)
(* keys of the pre-existing Question and junction row resolved.            *)
(***************************************************************************)
PreRowNames == {"tb", "ps", "q", "sp", "spv", "link"}

PreChoices ==
  {S \in SUBSET PreRowNames :
     /\ "q" \in S => "ps" \in S
     /\ "link" \in S => {"tb", "ps"} \subseteq S}

PreTarget(S) ==
  [textbook |-> IF "tb" \in S THEN {[id |-> PreId(1)]} ELSE {},
   passageSet |-> IF "ps" \in S THEN {[id |-> PreId(2), qrCode |-> 1]} ELSE {},
   question |-> IF "q" \in S THEN {[id |-> PreId(3), setId |-> PreId(2)]} ELSE {},
   systemPrompt |-> IF "sp" \in S THEN {[id |-> PreId(4), key |-> 1]} ELSE {},
   systemPromptVersion |-> IF "spv" \in S THEN {[id |-> PreId(5)]} ELSE {},
   passageSetTextbook |->
     IF "link" \in S
       THEN <<[textbookId |-> PreId(1), passageSetId |-> PreId(2)]>>
       ELSE <<>>]

(***************************************************************************)
(* Init: the state after `new MongoToSQLiteMigrator(config)`.              *)
(***************************************************************************)
InitMigrator ==
  /\ \E pre \in PreChoices :
       /\ Cardinality(pre) <= MaxSize
       /\ target = PreTarget(pre)
       /\ \E ps \in PassageSetSeqs(MaxSize - Cardinality(pre)) :
          \E tb \in IdSeqs(MaxSize - Cardinality(pre) - PassageSetsSize(ps)) :
          \E q \in SeqsUpTo(SrcIds,
                     MaxSize - Cardinality(pre) - PassageSetsSize(ps) - Len(tb)) :
          \E sp \in SeqsUpTo(SrcIds,
                     MaxSize - Cardinality(pre) - PassageSetsSize(ps) - Len(tb)
                       - Len(q)) :
          \E n \in 0..(MaxSize - Cardinality(pre) - PassageSetsSize(ps)
                         - Len(tb) - Len(q) - Len(sp)) :
            source = [textbooks |-> tb, passagesets |-> ps, questions |-> q,
                      systemprompts |-> sp, versions |-> [i \in 1..n |-> i]]
  /\ target0 = target
  /\ idMapping = [k \in SrcIds |-> Undefined]
  /\ pc = "NotStarted"
  /\ idx = 1
  /\ refIdx = 1
  /\ nextUuid = 0
  /\ failure = NoError
  /\ warnings = <<>>
  /\ mongoConn = "new"
  /\ prismaConn = "new"
  /\ closeCalls = [mongo |-> 0, prisma |-> 0]

(***************************************************************************)
(* The Prisma client: create() per model.  create() either adds the row    *)
(* or throws; the constraints are those of the SQLite schema.              *)
(***************************************************************************)
Ids(table) == {r.id : r \in table}

ForeignKeysOff == FALSE

\* PRAGMA foreign_keys = ON (setupConnections).
ForeignKeysOn == TRUE

\* The schema declares Question.setId as a foreign key to PassageSet.
QuestionSetIdReferencesPassageSet == TRUE

\* prisma.textbook.create: id is the primary key.
TextbookCreateOk(t, row) == row.id \notin Ids(t.textbook)

\* prisma.passageSet.create: id is the primary key, qrCode is unique.
PassageSetCreateOk(t, row) ==
  /\ row.id \notin Ids(t.passageSet)
  /\ \A r \in t.passageSet : r.qrCode # row.qrCode

\* prisma.question.create: id is the primary key, setId references PassageSet.
QuestionCreateOk(t, row) ==
  /\ row.id \notin Ids(t.question)
  /\ (ForeignKeysOn /\ QuestionSetIdReferencesPassageSet)
       => row.setId \in Ids(t.passageSet)

\* prisma.systemPrompt.create: id is the primary key, key is unique.
SystemPromptCreateOk(t, row) ==
  /\ row.id \notin Ids(t.systemPrompt)
  /\ \A r \in t.systemPrompt : r.key # row.key

\* prisma.systemPromptVersion.create: id is the primary key.
SystemPromptVersionCreateOk(t, row) == row.id \notin Ids(t.systemPromptVersion)

NoUniquePassageSetTextbookCreateOk(t, row) ==
  /\ ForeignKeysOn => row.textbookId \in Ids(t.textbook)
  /\ ForeignKeysOn => row.passageSetId \in Ids(t.passageSet)

\* A junction table whose two columns reference nothing.
UncheckedPassageSetTextbookCreateOk(t, row) ==
  CountRows(t.passageSetTextbook, row) = 0

\* prisma.passageSetTextbook.create: (textbookId, passageSetId) is the
\* compound key textbookId_passageSetId; both sides are foreign keys.
PassageSetTextbookCreateOk(t, row) ==
  /\ CountRows(t.passageSetTextbook, row) = 0
  /\ ForeignKeysOn => row.textbookId \in Ids(t.textbook)
  /\ ForeignKeysOn => row.passageSetId \in Ids(t.passageSet)

\* The error a failed create() throws (PrismaClientKnownRequestError names
\* the model it was raised for).
WriteError(kind) ==
  [cause |-> "write", kind |-> kind, names |-> {kind}, counts |-> <<>>]

\* A failed connect(), $connect() or PRAGMA.
ConnectionError ==
  [cause |-> "connection", kind |-> "none", names |-> {}, counts |-> <<>>]

\* A failed fs.mkdir / fs.writeFile of backupExistingData.
BackupError ==
  [cause |-> "backup", kind |-> "none", names |-> {}, counts |-> <<>>]

\* A failed close() or $disconnect() in cleanup.
CloseError ==
  [cause |-> "close", kind |-> "none", names |-> {}, counts |-> <<>>]

\* new Error('... 데이터 카운트 불일치! 마이그레이션 검토 필요'): the message
\* names no entity kind and carries no count.
VerificationError ==
  [cause |-> "verification", kind |-> "none", names |-> {}, counts |-> <<>>]

\* this.idMapping.set(key, value)
MapSet(m, key, value) == [m EXCEPT ![key] = value]

\* this.idMapping.get(key)
MapGet(m, key) == m[key]

(***************************************************************************)
(* migrate(): try { ... } catch { rethrow } finally { cleanup }            *)
(***************************************************************************)
\* A catch block that swallows the exception and goes on with the next step.
ContinueAfter(e) ==
  /\ failure' = e
  /\ pc' = "backupExistingData"

\* An exception inside the try block: remembered, then `finally` runs.
Throw(e) ==
  /\ failure' = e
  /\ pc' = "cleanup"

SetupConnections ==
  /\ UNCHANGED scriptVars
  /\ pc = "NotStarted"
  /\ \E outcome \in {"ok", "mongoFails", "prismaFails"} :
       /\ mongoConn' = IF outcome = "mongoFails" THEN mongoConn ELSE "open"
       /\ prismaConn' = IF outcome = "ok" THEN "open" ELSE prismaConn
       /\ IF outcome = "ok"
            THEN pc' = "backupExistingData" /\ UNCHANGED failure
            ELSE Throw(ConnectionError)
  /\ UNCHANGED <<source, target, target0, idMapping, idx, refIdx, nextUuid,
                 warnings, closeCalls>>

\* config.backup.enabled is true in main(); the JSON dump of the source
\* touches neither the target nor the mapping.
BackupExistingData ==
  /\ UNCHANGED scriptVars
  /\ pc = "backupExistingData"
  /\ \E written \in BOOLEAN :
       IF written
         THEN pc' = "initializeSQLite" /\ UNCHANGED failure
         ELSE Throw(BackupError)
  /\ UNCHANGED <<source, target, target0, idMapping, idx, refIdx, nextUuid,
                 warnings, mongoConn, prismaConn, closeCalls>>

\* An initialisation that empties the target tables before the import.
ClearingInitializeSQLite ==
  /\ UNCHANGED scriptVars
  /\ pc = "initializeSQLite"
  /\ pc' = "migrateTextbooks"
  /\ idx' = 1
  /\ target' = EmptyTarget
  /\ UNCHANGED <<source, target0, idMapping, refIdx, nextUuid,
                 failure, warnings, mongoConn, prismaConn, closeCalls>>

\* Only logs a hint: the store is neither created nor emptied.
InitializeSQLite ==
  /\ UNCHANGED scriptVars
  /\ pc = "initializeSQLite"
  /\ pc' = "migrateTextbooks"
  /\ idx' = 1
  /\ UNCHANGED <<source, target, target0, idMapping, refIdx, nextUuid,
                 failure, warnings, mongoConn, prismaConn, closeCalls>>

\* One iteration of the loop of migrateTextbooks.
MigrateTextbook ==
  /\ UNCHANGED scriptVars
  /\ pc = "migrateTextbooks"
  /\ idx <= Len(source.textbooks)
  /\ LET newId == Uuid(nextUuid + 1)
         row == [id |-> newId]
     IN /\ nextUuid' = nextUuid + 1
        /\ idMapping' = MapSet(idMapping, source.textbooks[idx], newId)
        /\ IF TextbookCreateOk(target, row)
             THEN /\ target' = [target EXCEPT !.textbook = @ \cup {row}]
                  /\ idx' = idx + 1
                  /\ UNCHANGED <<pc, failure>>
             ELSE /\ Throw(WriteError("textbooks"))
                  /\ UNCHANGED <<target, idx>>
  /\ UNCHANGED <<source, target0, refIdx, warnings, mongoConn, prismaConn,
                 closeCalls>>

\* The Textbook loop ending in a jump to the Question import.
MigrateTextbooksDoneThenQuestions ==
  /\ UNCHANGED scriptVars
  /\ pc = "migrateTextbooks"
  /\ idx > Len(source.textbooks)
  /\ pc' = "migrateQuestions"
  /\ idx' = 1
  /\ UNCHANGED <<source, target, target0, idMapping, refIdx, nextUuid,
                 failure, warnings, mongoConn, prismaConn, closeCalls>>

MigrateTextbooksDone ==
  /\ UNCHANGED scriptVars
  /\ pc = "migrateTextbooks"
  /\ idx > Len(source.textbooks)
  /\ pc' = "migratePassageSets"
  /\ idx' = 1
  /\ UNCHANGED <<source, target, target0, idMapping, refIdx, nextUuid,
                 failure, warnings, mongoConn, prismaConn, closeCalls>>

\* One iteration of the loop of migratePassageSets.
MigratePassageSet ==
  /\ UNCHANGED scriptVars
  /\ pc = "migratePassageSets"
  /\ idx <= Len(source.passagesets)
  /\ LET passageSet == source.passagesets[idx]
         newId == Uuid(nextUuid + 1)
         row == [id |-> newId, qrCode |-> passageSet.qrCode]
     IN /\ nextUuid' = nextUuid + 1
        /\ idMapping' = MapSet(idMapping, passageSet._id, newId)
        /\ IF PassageSetCreateOk(target, row)
             THEN /\ target' = [target EXCEPT !.passageSet = @ \cup {row}]
                  /\ idx' = idx + 1
                  /\ UNCHANGED <<pc, failure>>
             ELSE /\ Throw(WriteError("passagesets"))
                  /\ UNCHANGED <<target, idx>>
  /\ UNCHANGED <<source, target0, refIdx, warnings, mongoConn, prismaConn,
                 closeCalls>>

MigratePassageSetsDone ==
  /\ UNCHANGED scriptVars
  /\ pc = "migratePassageSets"
  /\ idx > Len(source.passagesets)
  /\ pc' = "migrateQuestions"
  /\ idx' = 1
  /\ UNCHANGED <<source, target, target0, idMapping, refIdx, nextUuid,
                 failure, warnings, mongoConn, prismaConn, closeCalls>>

ThrowingOrphanQuestion(passageSetId) == passageSetId = Undefined /\ FALSE

\* if (!passageSetId) { console.warn(...); continue; }
IsOrphanQuestion(passageSetId) == passageSetId = Undefined

\* One iteration of the loop of migrateQuestions.
MigrateQuestion ==
  /\ UNCHANGED scriptVars
  /\ pc = "migrateQuestions"
  /\ idx <= Len(source.questions)
  /\ LET setId == source.questions[idx]
         newId == Uuid(nextUuid + 1)
         passageSetId == MapGet(idMapping, setId)
         row == [id |-> newId, setId |-> passageSetId]
     IN /\ nextUuid' = nextUuid + 1
        /\ IF IsOrphanQuestion(passageSetId)
             THEN /\ warnings' = Append(warnings, [about |-> "questions", ref |-> setId])
                  /\ idx' = idx + 1
                  /\ UNCHANGED <<target, pc, failure>>
             ELSE IF QuestionCreateOk(target, row)
               THEN /\ target' = [target EXCEPT !.question = @ \cup {row}]
                    /\ idx' = idx + 1
                    /\ UNCHANGED <<pc, failure, warnings>>
               ELSE /\ Throw(WriteError("questions"))
                    /\ UNCHANGED <<target, idx, warnings>>
  /\ UNCHANGED <<source, target0, idMapping, refIdx, mongoConn, prismaConn,
                 closeCalls>>

MigrateQuestionsDone ==
  /\ UNCHANGED scriptVars
  /\ pc = "migrateQuestions"
  /\ idx > Len(source.questions)
  /\ pc' = "migrateSystemPrompts"
  /\ idx' = 1
  /\ UNCHANGED <<source, target, target0, idMapping, refIdx, nextUuid,
                 failure, warnings, mongoConn, prismaConn, closeCalls>>

\* One iteration of the loop of migrateSystemPrompts.
MigrateSystemPrompt ==
  /\ UNCHANGED scriptVars
  /\ pc = "migrateSystemPrompts"
  /\ idx <= Len(source.systemprompts)
  /\ LET newId == Uuid(nextUuid + 1)
         row == [id |-> newId, key |-> source.systemprompts[idx]]
     IN /\ nextUuid' = nextUuid + 1
        /\ IF SystemPromptCreateOk(target, row)
             THEN /\ target' = [target EXCEPT !.systemPrompt = @ \cup {row}]
                  /\ idx' = idx + 1
                  /\ UNCHANGED <<pc, failure>>
             ELSE /\ Throw(WriteError("systemprompts"))
                  /\ UNCHANGED <<target, idx>>
  /\ UNCHANGED <<source, target0, idMapping, refIdx, warnings, mongoConn,
                 prismaConn, closeCalls>>

MigrateSystemPromptsDone ==
  /\ UNCHANGED scriptVars
  /\ pc = "migrateSystemPrompts"
  /\ idx > Len(source.systemprompts)
  /\ pc' = "migrateSystemPromptVersions"
  /\ idx' = 1
  /\ UNCHANGED <<source, target, target0, idMapping, refIdx, nextUuid,
                 failure, warnings, mongoConn, prismaConn, closeCalls>>

\* One iteration of the loop of migrateSystemPromptVersions
\* (source.versions is what collection('systemprompversions') holds).
MigrateSystemPromptVersion ==
  /\ UNCHANGED scriptVars
  /\ pc = "migrateSystemPromptVersions"
  /\ idx <= Len(source.versions)
  /\ LET newId == Uuid(nextUuid + 1)
         row == [id |-> newId]
     IN /\ nextUuid' = nextUuid + 1
        /\ IF SystemPromptVersionCreateOk(target, row)
             THEN /\ target' = [target EXCEPT !.systemPromptVersion = @ \cup {row}]
                  /\ idx' = idx + 1
                  /\ UNCHANGED <<pc, failure>>
             ELSE /\ Throw(WriteError("systempromptversions"))
                  /\ UNCHANGED <<target, idx>>
  /\ UNCHANGED <<source, target0, idMapping, refIdx, warnings, mongoConn,
                 prismaConn, closeCalls>>

MigrateSystemPromptVersionsDone ==
  /\ UNCHANGED scriptVars
  /\ pc = "migrateSystemPromptVersions"
  /\ idx > Len(source.versions)
  /\ pc' = "establishRelationships"
  /\ idx' = 1
  /\ refIdx' = 1
  /\ UNCHANGED <<source, target, target0, idMapping, nextUuid,
                 failure, warnings, mongoConn, prismaConn, closeCalls>>

(***************************************************************************)
(* establishRelationships: outer loop over the passagesets (idx), inner    *)
(* loop over passageSet.textbooks (refIdx).                                *)
(***************************************************************************)
\* One iteration of the inner loop: resolve the textbook, then
\* try { create } catch { log and go on }.
LinkTextbook ==
  /\ UNCHANGED scriptVars
  /\ pc = "establishRelationships"
  /\ idx <= Len(source.passagesets)
  /\ MapGet(idMapping, source.passagesets[idx]._id) # Undefined
  /\ refIdx <= Len(source.passagesets[idx].textbooks)
  /\ LET passageSetId == MapGet(idMapping, source.passagesets[idx]._id)
         textbookObjectId == source.passagesets[idx].textbooks[refIdx]
         textbookId == MapGet(idMapping, textbookObjectId)
         row == [textbookId |-> textbookId, passageSetId |-> passageSetId]
     IN IF textbookId = Undefined
          THEN /\ warnings' = Append(warnings,
                                [about |-> "textbooks", ref |-> textbookObjectId])
               /\ UNCHANGED target
          ELSE IF PassageSetTextbookCreateOk(target, row)
            THEN /\ target' = [target EXCEPT !.passageSetTextbook = Append(@, row)]
                 /\ UNCHANGED warnings
            ELSE UNCHANGED <<target, warnings>>
  /\ refIdx' = refIdx + 1
  /\ UNCHANGED <<source, target0, idMapping, pc, idx, nextUuid, failure,
                 mongoConn, prismaConn, closeCalls>>

\* Next passage set: the inner loop is over, or
\* if (!passageSetId) continue;
NextPassageSet ==
  /\ UNCHANGED scriptVars
  /\ pc = "establishRelationships"
  /\ idx <= Len(source.passagesets)
  /\ \/ MapGet(idMapping, source.passagesets[idx]._id) = Undefined
     \/ refIdx > Len(source.passagesets[idx].textbooks)
  /\ idx' = idx + 1
  /\ refIdx' = 1
  /\ UNCHANGED <<source, target, target0, idMapping, pc, nextUuid, failure,
                 warnings, mongoConn, prismaConn, closeCalls>>

EstablishRelationshipsDone ==
  /\ UNCHANGED scriptVars
  /\ pc = "establishRelationships"
  /\ idx > Len(source.passagesets)
  /\ pc' = "verifyMigration"
  /\ UNCHANGED <<source, target, target0, idMapping, idx, refIdx, nextUuid,
                 failure, warnings, mongoConn, prismaConn, closeCalls>>

(***************************************************************************)
(* verifyMigration                                                         *)
(***************************************************************************)
\* countDocuments() of the four collections the verifier reads.
MongoStats(s) ==
  [textbooks |-> Len(s.textbooks), passagesets |-> Len(s.passagesets),
   questions |-> Len(s.questions), systemprompts |-> Len(s.systemprompts)]

\* count() of the four tables the verifier reads.
SqliteStats(t) ==
  [textbooks |-> Cardinality(t.textbook),
   passagesets |-> Cardinality(t.passageSet),
   questions |-> Cardinality(t.question),
   systemprompts |-> Cardinality(t.systemPrompt)]

VerifiedKinds == {"textbooks", "passagesets", "questions", "systemprompts"}

\* A verifier that does not compare the number of Questions.
CountMismatchExceptQuestions(s, t) ==
  \E k \in VerifiedKinds \ {"questions"} : MongoStats(s)[k] # SqliteStats(t)[k]

\* A verifier that also compares the links of the source with the junction
\* rows of the target.
CountMismatchWithLinks(s, t) ==
  \/ \E k \in VerifiedKinds : MongoStats(s)[k] # SqliteStats(t)[k]
  \/ SumLens([i \in DOMAIN s.passagesets |-> s.passagesets[i].textbooks],
             Len(s.passagesets))
       # Len(t.passageSetTextbook)

\* The condition of the `if` that throws.
CountMismatch(s, t) ==
  \E k \in VerifiedKinds : MongoStats(s)[k] # SqliteStats(t)[k]

VerifyMigration ==
  /\ UNCHANGED scriptVars
  /\ pc = "verifyMigration"
  /\ IF CountMismatch(source, target)
       THEN Throw(VerificationError)
       ELSE pc' = "cleanup" /\ UNCHANGED failure
  /\ UNCHANGED <<source, target, target0, idMapping, idx, refIdx, nextUuid,
                 warnings, mongoConn, prismaConn, closeCalls>>

(***************************************************************************)
(* finally { await this.cleanup() }: close the source, then the target.    *)
(* An exception of cleanup replaces the one being rethrown.                *)
(***************************************************************************)
Cleanup ==
  /\ UNCHANGED scriptVars
  /\ pc = "cleanup"
  /\ \E outcome \in {"ok", "closeFails", "disconnectFails"} :
       /\ closeCalls' =
            [mongo |-> closeCalls.mongo + 1,
             prisma |-> IF outcome = "closeFails" THEN closeCalls.prisma
                        ELSE closeCalls.prisma + 1]
       /\ mongoConn' = IF outcome = "closeFails" THEN mongoConn ELSE "closed"
       /\ prismaConn' = IF outcome = "ok" THEN "closed" ELSE prismaConn
       /\ failure' = IF outcome = "ok" THEN failure ELSE CloseError
       /\ pc' = IF outcome = "ok" /\ failure = NoError THEN "Succeeded"
                ELSE "Failed"
  /\ UNCHANGED <<source, target, target0, idMapping, idx, refIdx, nextUuid,
                 warnings>>

\* if (require.main === module) main().catch(console.error): the rejection
\* of migrate() is caught and printed, nothing calls process.exit or sets
\* process.exitCode, so node ends with status 0 after a run of either outcome.
ProcessExitCode == 0

NextMigrator ==
  \/ SetupConnections
  \/ BackupExistingData
  \/ InitializeSQLite
  \/ MigrateTextbook
  \/ MigrateTextbooksDone
  \/ MigratePassageSet
  \/ MigratePassageSetsDone
  \/ MigrateQuestion
  \/ MigrateQuestionsDone
  \/ MigrateSystemPrompt
  \/ MigrateSystemPromptsDone
  \/ MigrateSystemPromptVersion
  \/ MigrateSystemPromptVersionsDone
  \/ LinkTextbook
  \/ NextPassageSet
  \/ EstablishRelationshipsDone
  \/ VerifyMigration
  \/ Cleanup

(***************************************************************************)
(* Part II: backup-restore.sh                                              *)
(***************************************************************************)
\* Database backups are named backup_<date +%Y%m%d_%H%M%S>: 1..MaxNames.
MaxNames == 2
\* A store holds 0..MaxRecords records.
MaxRecords == 1

Names == 1..MaxNames

NoFile == [data |-> -1, report |-> <<>>]

\* What `sqlite3 <file> "PRAGMA integrity_check;"` writes to stdout, as a
\* sequence of characters: the single row ok for a consistent store, the
\* rows describing the damage otherwise.
ReportOk ==
  <<"o", "k">>

\* "Page 7 is never used"
ReportPage ==
  <<"P", "a", "g", "e", " ", "7", " ", "i", "s", " ", "n", "e", "v", "e",
    "r", " ", "u", "s", "e", "d">>

\* "row 1 missing from index sqlite_autoindex_Textbook_1"
ReportIndex ==
  <<"r", "o", "w", " ", "1", " ", "m", "i", "s", "s", "i", "n", "g", " ",
    "f", "r", "o", "m", " ", "i", "n", "d", "e", "x", " ", "s", "q", "l",
    "i", "t", "e", "_", "a", "u", "t", "o", "i", "n", "d", "e", "x", "_",
    "T", "e", "x", "t", "b", "o", "o", "k", "_", "1">>

IntegrityReports == {ReportOk, ReportPage, ReportIndex}

\* A store file: its records and the report integrity_check gives for it.
Stores == [data : 0..MaxRecords, report : IntegrityReports]

Files == Stores \cup {NoFile}

\* The file sqlite3 creates when it opens a path that does not exist.
EmptyStore == [data |-> 0, report |-> ReportOk]

\* The store is consistent: integrity_check answers the single row ok.
Consistent(f) == f # NoFile /\ f.report = ReportOk

\* grep <pattern>: some line of the text contains the pattern.
Contains(text, pattern) ==
  \E i \in 1..(Len(text) - Len(pattern) + 1) :
    SubSeq(text, i, i + Len(pattern) - 1) = pattern

\* sqlite3 "$file" "PRAGMA integrity_check;" | grep -q "ok"
IntegrityCheckPasses(f) == sqliteInstalled /\ Contains(f.report, <<"o", "k">>)

\* The command lines modelled: backup --db-only, restore <name> --db-only.
Commands == [op : {"backup_db", "restore_db"}, name : Names]

NoCommand == [op |-> "none", name |-> 0]

\* exit <n>, or the end of main
Exit(n) ==
  /\ shPc' = "exit"
  /\ exitStatus' = n

InitShell ==
  /\ live \in Files
  /\ dbBackups \in [Names -> Files]
  /\ safetyCopy = NoFile
  /\ service \in {"online", "stopped", "unmanaged"}
  /\ sqliteInstalled \in BOOLEAN
  /\ schemaFile \in BOOLEAN
  /\ shPc = "main"
  /\ shCmd = NoCommand
  /\ exitStatus = 0
  /\ live0 = live
  /\ service0 = service
  /\ checked = NoFile

\* main "$@": the case on $command.  For backup, check_dependencies exits 1
\* when sqlite3 is missing; generate_backup_name gives the name.
Main ==
  /\ shPc = "main"
  /\ \E c \in Commands :
       /\ shCmd' = c
       /\ IF c.op = "backup_db"
            THEN IF sqliteInstalled
                   THEN shPc' = "backup_checkpoint" /\ UNCHANGED exitStatus
                   ELSE Exit(1)
            ELSE shPc' = "restore_exists" /\ UNCHANGED exitStatus
  /\ UNCHANGED <<live, dbBackups, safetyCopy, service, sqliteInstalled,
                 schemaFile, live0, service0, checked>>
  /\ UNCHANGED <<migVars, restVars>>

\* backup_database: sqlite3 "$DATABASE_PATH" "PRAGMA wal_checkpoint(FULL);"
\* (sqlite3 creates the database file if its directory exists).
BackupCheckpoint ==
  /\ shPc = "backup_checkpoint"
  /\ IF live = NoFile
       THEN live' \in {NoFile, EmptyStore}
       ELSE UNCHANGED live
  /\ shPc' = "backup_copy"
  /\ UNCHANGED <<dbBackups, safetyCopy, service, sqliteInstalled, schemaFile,
                 shCmd, exitStatus, live0, service0, checked>>
  /\ UNCHANGED <<migVars, restVars>>

\* backup_database: sqlite3 "$DATABASE_PATH" ".backup '${backup_path}'"
\* (runs inside $(...), where errexit is off: a failure does not stop it).
BackupCopy ==
  /\ shPc = "backup_copy"
  /\ IF live = NoFile
       THEN UNCHANGED dbBackups
       ELSE dbBackups' = [dbBackups EXCEPT ![shCmd.name] = live]
  /\ shPc' = "backup_verify"
  /\ UNCHANGED <<live, safetyCopy, service, sqliteInstalled, schemaFile,
                 shCmd, exitStatus, live0, service0, checked>>
  /\ UNCHANGED <<migVars, restVars>>

\* backup_database: the integrity check of the copy; rm -f and exit 1 when
\* it fails.  The exit status of $(...) is that of main's assignment, which
\* errexit turns into the script's.
BackupVerify ==
  /\ shPc = "backup_verify"
  /\ LET copy == IF dbBackups[shCmd.name] = NoFile THEN EmptyStore
                 ELSE dbBackups[shCmd.name]
     IN /\ checked' = copy
        /\ IF IntegrityCheckPasses(copy)
             THEN /\ dbBackups' = [dbBackups EXCEPT ![shCmd.name] = copy]
                  /\ Exit(0)
             ELSE /\ dbBackups' = [dbBackups EXCEPT ![shCmd.name] = NoFile]
                  /\ Exit(1)
  /\ UNCHANGED <<live, safetyCopy, service, sqliteInstalled, schemaFile,
                 shCmd, live0, service0>>
  /\ UNCHANGED <<migVars, restVars>>

\* restore_database: if [[ ! -f "$backup_path" ]]; then ... return 1
RestoreExists ==
  /\ shPc = "restore_exists"
  /\ IF dbBackups[shCmd.name] = NoFile
       THEN Exit(1)
       ELSE shPc' = "restore_stop" /\ UNCHANGED exitStatus
  /\ UNCHANGED <<live, dbBackups, safetyCopy, service, sqliteInstalled,
                 schemaFile, shCmd, live0, service0, checked>>
  /\ UNCHANGED <<migVars, restVars>>

\* restore_database: pm2 stop edutech-api 2>/dev/null || true
RestoreStop ==
  /\ shPc = "restore_stop"
  /\ service' = IF service = "online" THEN "stopped" ELSE service
  /\ shPc' = "restore_safety"
  /\ UNCHANGED <<live, dbBackups, safetyCopy, sqliteInstalled, schemaFile,
                 shCmd, exitStatus, live0, service0, checked>>
  /\ UNCHANGED <<migVars, restVars>>

\* restore_database without the cp to $current_backup.
RestoreWithoutSafetyCopy ==
  /\ shPc = "restore_safety"
  /\ shPc' = "restore_copy"
  /\ UNCHANGED <<live, dbBackups, safetyCopy, service, sqliteInstalled,
                 schemaFile, shCmd, exitStatus, live0, service0, checked>>
  /\ UNCHANGED <<migVars, restVars>>

\* restore_database: cp "$DATABASE_PATH" "$current_backup"
\* (cp fails when the live store does not exist; errexit ends the script).
RestoreSafety ==
  /\ shPc = "restore_safety"
  /\ IF live = NoFile
       THEN Exit(1) /\ UNCHANGED safetyCopy
       ELSE /\ safetyCopy' = live
            /\ shPc' = "restore_copy"
            /\ UNCHANGED exitStatus
  /\ UNCHANGED <<live, dbBackups, service, sqliteInstalled, schemaFile,
                 shCmd, live0, service0, checked>>
  /\ UNCHANGED <<migVars, restVars>>

\* restore_database: cp "$backup_path" "$DATABASE_PATH"
RestoreCopy ==
  /\ shPc = "restore_copy"
  /\ live' = dbBackups[shCmd.name]
  /\ shPc' = "restore_verify"
  /\ UNCHANGED <<dbBackups, safetyCopy, service, sqliteInstalled, schemaFile,
                 shCmd, exitStatus, live0, service0, checked>>
  /\ UNCHANGED <<migVars, restVars>>

\* restore_database: the integrity check of the replaced live store.
RestoreVerify ==
  /\ shPc = "restore_verify"
  /\ checked' = live
  /\ shPc' = IF IntegrityCheckPasses(live) THEN "restore_restart"
             ELSE "restore_rollback"
  /\ UNCHANGED <<live, dbBackups, safetyCopy, service, sqliteInstalled,
                 schemaFile, shCmd, exitStatus, live0, service0>>
  /\ UNCHANGED <<migVars, restVars>>

\* restore_database, check passed: pm2 start, then, if schema.prisma
\* exists, npx prisma db push --accept-data-loss || log_warning: the push
\* leaves the store as it is (in sync, or the push failed) or rewrites it,
\* keeping all or some of its records.  restore_database then returns 0:
\* with --db-only the script ends, in a full restore main goes on to
\* restore_files.
RestoreRestart ==
  /\ shPc = "restore_restart"
  /\ service' = IF service = "stopped" THEN "online" ELSE service
  /\ IF schemaFile
       THEN \E kept \in 0..live.data : live' = [live EXCEPT !.data = kept]
       ELSE UNCHANGED live
  /\ IF shCmd.op = "restore_full"
       THEN shPc' = "restore_files_exists" /\ UNCHANGED exitStatus
       ELSE Exit(0)
  /\ UNCHANGED <<dbBackups, safetyCopy, sqliteInstalled, schemaFile, shCmd,
                 live0, service0, checked>>
  /\ UNCHANGED <<migVars, restVars>>

\* restore_database, check failed: cp "$current_backup" "$DATABASE_PATH",
\* pm2 start, return 1.
RestoreRollback ==
  /\ shPc = "restore_rollback"
  /\ live' = safetyCopy
  /\ service' = IF service = "stopped" THEN "online" ELSE service
  /\ Exit(1)
  /\ UNCHANGED <<dbBackups, safetyCopy, sqliteInstalled, schemaFile, shCmd,
                 live0, service0, checked>>
  /\ UNCHANGED <<migVars, restVars>>

NextShell ==
  \/ Main
  \/ BackupCheckpoint
  \/ BackupCopy
  \/ BackupVerify
  \/ RestoreExists
  \/ RestoreStop
  \/ RestoreSafety
  \/ RestoreCopy
  \/ RestoreVerify
  \/ RestoreRestart
  \/ RestoreRollback

(***************************************************************************)
(* Part II, continued: cleanup_backups.  A category directory is modelled  *)
(* by its listing: one entry per backup, named by the rank of its          *)
(* modification time (a larger rank is a more recent backup).  A directory *)
(* that does not exist behaves as an empty one ([[ -d "$backup_dir" ]]).   *)
(***************************************************************************)
\* MAX_LOCAL_BACKUPS=30
MAX_LOCAL_BACKUPS == 30

\* A category holds no backup, or at most MaxOldBackups fewer or more than
\* MAX_LOCAL_BACKUPS.
MaxOldBackups == 5

DirSizes ==
  {0} \cup ((MAX_LOCAL_BACKUPS - MaxOldBackups)..(MAX_LOCAL_BACKUPS + MaxOldBackups))

\* for backup_type in "database" "files" "full"
BackupTypes == <<"database", "files", "full">>

Max(S) == CHOOSE m \in S : \A x \in S : x <= m

\* ls -t "$backup_dir": the entries, most recently modified first.
RECURSIVE LsNewestFirst(_)
LsNewestFirst(dir) ==
  IF dir = {} THEN <<>>
  ELSE <<Max(dir)>> \o LsNewestFirst(dir \ {Max(dir)})

\* tail -n +<from>: the lines from line <from> on.
TailFrom(lines, from) == SubSeq(lines, from, Len(lines))

OldBackupsFromLimit(dir) == TailFrom(LsNewestFirst(dir), MAX_LOCAL_BACKUPS)

\* old_backups=$(ls -t "$backup_dir" | tail -n +$((MAX_LOCAL_BACKUPS + 1)))
OldBackups(dir) == TailFrom(LsNewestFirst(dir), MAX_LOCAL_BACKUPS + 1)

DryRunIgnored(arg) == FALSE

\* main: if [[ "$1" == "--dry-run" ]]; then dry_run=true
DryRun(arg) == arg = "--dry-run"

CleanupCommands == [op : {"cleanup"}, name : {"", "--dry-run"}]

CleanupIdle ==
  /\ backupDirs = [t \in Range(BackupTypes) |-> {}]
  /\ backupDirs0 = backupDirs
  /\ reported = {}

\* The first invocation, nothing backed up by an earlier one.
FirstRun ==
  /\ runs = 1
  /\ backedUp = [n \in Names |-> NoFile]

InitCleanup ==
  /\ backupDirs \in [Range(BackupTypes) -> {1..k : k \in DirSizes}]
  /\ backupDirs0 = backupDirs
  /\ reported = {}
  /\ FirstRun
  /\ live = EmptyStore
  /\ dbBackups = [n \in Names |-> NoFile]
  /\ safetyCopy = NoFile
  /\ service = "online"
  /\ sqliteInstalled = TRUE
  /\ schemaFile = TRUE
  /\ shPc = "main"
  /\ shCmd = NoCommand
  /\ exitStatus = 0
  /\ live0 = live
  /\ service0 = service
  /\ checked = NoFile

\* main, "cleanup": cleanup_backups "$dry_run"
MainCleanup ==
  /\ shPc = "main"
  /\ \E c \in CleanupCommands : shCmd' = c
  /\ shPc' = "cleanup_local_1"
  /\ UNCHANGED <<live, dbBackups, safetyCopy, service, sqliteInstalled,
                 schemaFile, exitStatus, live0, service0, checked>>
  /\ UNCHANGED <<migVars, restVars>>

CleanupPosition ==
  CASE shPc = "cleanup_local_1" -> 1
    [] shPc = "cleanup_local_2" -> 2
    [] shPc = "cleanup_local_3" -> 3
    [] OTHER -> 0

CleanupPcAfter(i) ==
  CASE i = 1 -> "cleanup_local_2"
    [] i = 2 -> "cleanup_local_3"
    [] OTHER -> "cleanup_cloud"

\* cleanup_backups: one iteration of the loop over the backup types, the
\* inner loop over $old_backups included.
CleanupLocal ==
  /\ CleanupPosition > 0
  /\ LET type == BackupTypes[CleanupPosition]
         old == Range(OldBackups(backupDirs[type]))
     IN IF DryRun(shCmd.name)
          THEN /\ reported' = reported \cup {<<type, b>> : b \in old}
               /\ UNCHANGED backupDirs
          ELSE /\ backupDirs' = [backupDirs EXCEPT ![type] = @ \ old]
               /\ UNCHANGED reported
  /\ shPc' = CleanupPcAfter(CleanupPosition)
  /\ UNCHANGED <<live, dbBackups, safetyCopy, service, sqliteInstalled,
                 schemaFile, shCmd, exitStatus, live0, service0, checked, backupDirs0>>
  /\ UNCHANGED <<migVars, rtVars, fbVars>>

\* cleanup_backups: the cloud part and the end of the function.  Without a
\* configured aws nothing is done; with it the old objects are listed and,
\* unless dry_run, removed with `aws s3 rm`, whose failure ends the script
\* (set -e).  The bucket is not part of the model.
CleanupCloud ==
  /\ shPc = "cleanup_cloud"
  /\ \E aws \in {"none", "ok", "fails"} :
       IF aws = "fails" /\ ~DryRun(shCmd.name) THEN Exit(1) ELSE Exit(0)
  /\ UNCHANGED <<live, dbBackups, safetyCopy, service, sqliteInstalled,
                 schemaFile, shCmd, live0, service0, checked>>
  /\ UNCHANGED <<migVars, restVars>>

NextCleanup ==
  \/ MainCleanup
  \/ CleanupLocal
  \/ CleanupCloud

(***************************************************************************)
(* Part II, continued: one invocation after the other.                     *)
(***************************************************************************)
\* The script is run at most MaxRuns times.
MaxRuns == 2

\* The script has ended and is run again.  Between the two runs the
\* application may have written the live store; the pre-restore copy of the
\* ended run stays on disk under its own timestamped name.
Reinvoke ==
  /\ shPc = "exit"
  /\ runs < MaxRuns
  /\ runs' = runs + 1
  /\ backedUp' =
       IF shCmd.op = "backup_db" /\ exitStatus = 0
         THEN [backedUp EXCEPT ![shCmd.name] = live0]
         ELSE backedUp
  /\ live' \in Files
  /\ live0' = live'
  /\ service0' = service
  /\ safetyCopy' = NoFile
  /\ checked' = NoFile
  /\ shPc' = "main"
  /\ shCmd' = NoCommand
  /\ exitStatus' = 0
  /\ UNCHANGED <<dbBackups, service, sqliteInstalled, schemaFile>>
  /\ UNCHANGED <<migVars, clVars, fbVars>>

NextRoundTrip ==
  \/ NextShell
  \/ Reinvoke

(***************************************************************************)
(* Part II, continued: backup --files-only and backup --full.              *)
(***************************************************************************)
\* A directory of archive members; a tar.gz of one has the same shape.
NoBundle == [exists |-> FALSE, members |-> {}]

Bundle(members) == [exists |-> TRUE, members |-> members]

\* Lines written to stdout.  log_info, log_success, log_warning and
\* log_error are all `echo -e`, so inside $(...) they are captured with the
\* path the function echoes at its end.
LogLine(level, text) == <<level, text>>

PathLine(type, name) == <<"path", type, name>>

\* "$text" names an existing file of the category: it is one line, a path.
IsPathTo(text, type, name) == text = <<PathLine(type, name)>>

\* stdout of backup_database "$name" for a copy that passes / fails the check.
BackupDatabaseOutput(name, passes) ==
  IF passes
    THEN <<LogLine("INFO", "Creating database backup"),
           LogLine("SUCCESS", "Database backup verified"),
           PathLine("database", name)>>
    ELSE <<LogLine("INFO", "Creating database backup"),
           LogLine("ERROR", "Database backup integrity check failed")>>

\* stdout of backup_files "$name" with and without $FILES_PATH.
BackupFilesOutput(name, found) ==
  IF found
    THEN <<LogLine("INFO", "Creating files backup"),
           LogLine("SUCCESS", "Files backup created"),
           PathLine("files", name)>>
    ELSE <<LogLine("INFO", "Creating files backup"),
           LogLine("WARNING", "Files directory not found")>>

\* tar -czf of $FILES_PATH: a whole archive, or what tar wrote before it
\* failed on an unreadable member.
TarOfFiles == IF filesDir = "readable" THEN "archive" ELSE "partial"

FilesIdle ==
  /\ filesDir = "readable"
  /\ filesBackups = [n \in Names |-> "none"]
  /\ fullBackups = [n \in Names |-> NoBundle]
  /\ bundleDir = NoBundle
  /\ dbBackupText = <<>>
  /\ backupPath = <<>>

FilesBackupCommands == [op : {"backup_files", "backup_full"}, name : Names]

InitFilesBackup ==
  /\ live \in Files
  /\ dbBackups = [n \in Names |-> NoFile]
  /\ safetyCopy = NoFile
  /\ service = "online"
  /\ sqliteInstalled \in BOOLEAN
  /\ schemaFile = TRUE
  /\ shPc = "main"
  /\ shCmd = NoCommand
  /\ exitStatus = 0
  /\ live0 = live
  /\ service0 = service
  /\ checked = NoFile
  /\ filesDir \in {"missing", "readable", "unreadable"}
  /\ filesBackups = [n \in Names |-> "none"]
  /\ fullBackups = [n \in Names |-> NoBundle]
  /\ bundleDir = NoBundle
  /\ dbBackupText = <<>>
  /\ backupPath = <<>>

\* main, "backup" with --files-only or --full (the default), no --cloud:
\* check_dependencies, ensure_backup_dirs, generate_backup_name.
MainFilesBackup ==
  /\ shPc = "main"
  /\ \E c \in FilesBackupCommands :
       /\ shCmd' = c
       /\ IF ~sqliteInstalled
            THEN Exit(1)
            ELSE /\ shPc' = IF c.op = "backup_files" THEN "files_only"
                            ELSE "full_mkdir"
                 /\ UNCHANGED exitStatus
  /\ UNCHANGED <<live, dbBackups, safetyCopy, service, sqliteInstalled,
                 schemaFile, live0, service0, checked>>
  /\ UNCHANGED <<migVars, clVars, rtVars, fbVars>>

\* main: backup_path=$(backup_files "$backup_name").  The status of the
\* assignment is the status backup_files returns; errexit ends the script
\* on 1.  Inside $(...) errexit is off: a failing tar does not stop
\* backup_files, which goes on to log_success and returns 0.
BackupFilesOnly ==
  /\ shPc = "files_only"
  /\ IF filesDir = "missing"
       THEN /\ backupPath' = BackupFilesOutput(shCmd.name, FALSE)
            /\ UNCHANGED filesBackups
            /\ Exit(1)
       ELSE /\ backupPath' = BackupFilesOutput(shCmd.name, TRUE)
            /\ filesBackups' = [filesBackups EXCEPT ![shCmd.name] = TarOfFiles]
            /\ Exit(0)
  /\ UNCHANGED <<live, dbBackups, safetyCopy, service, sqliteInstalled,
                 schemaFile, shCmd, live0, service0, checked>>
  /\ UNCHANGED <<filesDir, fullBackups, bundleDir, dbBackupText>>
  /\ UNCHANGED <<migVars, clVars, rtVars>>

\* backup_full: mkdir -p "$backup_dir"
FullMkdir ==
  /\ shPc = "full_mkdir"
  /\ bundleDir' = Bundle({})
  /\ shPc' = "full_database"
  /\ UNCHANGED <<live, dbBackups, safetyCopy, service, sqliteInstalled,
                 schemaFile, shCmd, exitStatus, live0, service0, checked>>
  /\ UNCHANGED <<filesDir, filesBackups, fullBackups, dbBackupText,
                 backupPath>>
  /\ UNCHANGED <<migVars, clVars, rtVars>>

\* backup_full: local db_backup=$(backup_database "${backup_name}").
\* backup_database runs in its own subshell: checkpoint, .backup, integrity
\* check; its `exit 1` ends that subshell only and `local` hides the status.
FullDatabase ==
  /\ shPc = "full_database"
  /\ \E created \in IF live = NoFile THEN {NoFile, EmptyStore} ELSE {live} :
       LET copy == IF created = NoFile THEN EmptyStore ELSE created
           passes == IntegrityCheckPasses(copy)
       IN /\ live' = created
          /\ checked' = copy
          /\ dbBackups' = [dbBackups EXCEPT ![shCmd.name] =
                             IF passes THEN copy ELSE NoFile]
          /\ dbBackupText' = BackupDatabaseOutput(shCmd.name, passes)
  /\ shPc' = "full_cp_database"
  /\ UNCHANGED <<safetyCopy, service, sqliteInstalled, schemaFile, shCmd,
                 exitStatus, live0, service0>>
  /\ UNCHANGED <<filesDir, filesBackups, fullBackups, bundleDir, backupPath>>
  /\ UNCHANGED <<migVars, clVars, rtVars>>

\* backup_full: cp "$db_backup" "$backup_dir/" (a failing cp is not fatal
\* inside $(backup_full ...)).
FullCopyDatabase ==
  /\ shPc = "full_cp_database"
  /\ bundleDir' =
       IF /\ IsPathTo(dbBackupText, "database", shCmd.name)
          /\ dbBackups[shCmd.name] # NoFile
         THEN Bundle(bundleDir.members \cup {"database"})
         ELSE bundleDir
  /\ shPc' = "full_files"
  /\ UNCHANGED <<live, dbBackups, safetyCopy, service, sqliteInstalled,
                 schemaFile, shCmd, exitStatus, live0, service0, checked>>
  /\ UNCHANGED <<filesDir, filesBackups, fullBackups, dbBackupText,
                 backupPath>>
  /\ UNCHANGED <<migVars, clVars, rtVars>>

\* backup_full: if backup_files "${backup_name}" > /dev/null 2>&1; then
\*   cp "$files_backup" "$backup_dir/"; fi
FullFiles ==
  /\ shPc = "full_files"
  /\ IF filesDir = "missing"
       THEN UNCHANGED <<filesBackups, bundleDir>>
       ELSE /\ filesBackups' = [filesBackups EXCEPT ![shCmd.name] = TarOfFiles]
            /\ bundleDir' = Bundle(bundleDir.members \cup {TarOfFiles})
  /\ shPc' = "full_metadata"
  /\ UNCHANGED <<live, dbBackups, safetyCopy, service, sqliteInstalled,
                 schemaFile, shCmd, exitStatus, live0, service0, checked>>
  /\ UNCHANGED <<filesDir, fullBackups, dbBackupText, backupPath>>
  /\ UNCHANGED <<migVars, clVars, rtVars>>

\* backup_full: cat > "$backup_dir/metadata.json"
FullMetadata ==
  /\ shPc = "full_metadata"
  /\ bundleDir' = Bundle(bundleDir.members \cup {"metadata"})
  /\ shPc' = "full_archive"
  /\ UNCHANGED <<live, dbBackups, safetyCopy, service, sqliteInstalled,
                 schemaFile, shCmd, exitStatus, live0, service0, checked>>
  /\ UNCHANGED <<filesDir, filesBackups, fullBackups, dbBackupText,
                 backupPath>>
  /\ UNCHANGED <<migVars, clVars, rtVars>>

\* backup_full: tar -czf "$full_backup_path", rm -rf "$backup_dir",
\* log_success, echo "$full_backup_path"; main: backup_path=$(...), status 0.
FullArchive ==
  /\ shPc = "full_archive"
  /\ fullBackups' = [fullBackups EXCEPT ![shCmd.name] = bundleDir]
  /\ bundleDir' = NoBundle
  /\ backupPath' = <<LogLine("INFO", "Creating full backup"),
                     LogLine("SUCCESS", "Full backup created"),
                     PathLine("full", shCmd.name)>>
  /\ Exit(0)
  /\ UNCHANGED <<live, dbBackups, safetyCopy, service, sqliteInstalled,
                 schemaFile, shCmd, live0, service0, checked>>
  /\ UNCHANGED <<filesDir, filesBackups, dbBackupText>>
  /\ UNCHANGED <<migVars, clVars, rtVars>>

NextFilesBackup ==
  \/ MainFilesBackup
  \/ BackupFilesOnly
  \/ FullMkdir
  \/ FullDatabase
  \/ FullCopyDatabase
  \/ FullFiles
  \/ FullMetadata
  \/ FullArchive

(***************************************************************************)
(* Part II, continued: restore <name> [--files-only] (the default scope is *)
(* full: restore_database, then restore_files).                            *)
(***************************************************************************)
RestoreCommands == [op : {"restore_full", "restore_files"}, name : Names]

InitRestore ==
  /\ live \in Files
  /\ dbBackups \in [Names -> Files]
  /\ safetyCopy = NoFile
  /\ service \in {"online", "stopped"}
  /\ sqliteInstalled = TRUE
  /\ schemaFile \in BOOLEAN
  /\ shPc = "main"
  /\ shCmd = NoCommand
  /\ exitStatus = 0
  /\ live0 = live
  /\ service0 = service
  /\ checked = NoFile
  /\ filesDir \in {"missing", "readable"}
  /\ filesBackups \in [Names -> {"none", "archive"}]
  /\ fullBackups = [n \in Names |-> NoBundle]
  /\ bundleDir = NoBundle
  /\ dbBackupText = <<>>
  /\ backupPath = <<>>

\* main, "restore" <name> without --db-only: the case on $restore_type.
MainRestore ==
  /\ shPc = "main"
  /\ \E c \in RestoreCommands :
       /\ shCmd' = c
       /\ shPc' = IF c.op = "restore_full" THEN "restore_exists"
                  ELSE "restore_files_exists"
  /\ UNCHANGED <<live, dbBackups, safetyCopy, service, sqliteInstalled,
                 schemaFile, exitStatus, live0, service0, checked>>
  /\ UNCHANGED <<migVars, restVars>>

\* restore_files: if [[ ! -f "$backup_path" ]]; then ... return 1
\* (the last command of main: errexit or not, the script ends with 1).
RestoreFilesExists ==
  /\ shPc = "restore_files_exists"
  /\ IF filesBackups[shCmd.name] = "none"
       THEN Exit(1)
       ELSE shPc' = "restore_files_extract" /\ UNCHANGED exitStatus
  /\ UNCHANGED <<live, dbBackups, safetyCopy, service, sqliteInstalled,
                 schemaFile, shCmd, live0, service0, checked>>
  /\ UNCHANGED <<migVars, restVars>>

\* restore_files: mv "$FILES_PATH" "$current_backup" if it is a directory,
\* mkdir -p, tar -xzf "$backup_path", log_success.
RestoreFilesExtract ==
  /\ shPc = "restore_files_extract"
  /\ filesDir' = "restored"
  /\ Exit(0)
  /\ UNCHANGED <<live, dbBackups, safetyCopy, service, sqliteInstalled,
                 schemaFile, shCmd, live0, service0, checked>>
  /\ UNCHANGED <<filesBackups, fullBackups, bundleDir, dbBackupText,
                 backupPath>>
  /\ UNCHANGED <<migVars, clVars, rtVars>>

NextRestore ==
  \/ MainRestore
  \/ RestoreExists
  \/ RestoreStop
  \/ RestoreSafety
  \/ RestoreCopy
  \/ RestoreVerify
  \/ RestoreRestart
  \/ RestoreRollback
  \/ RestoreFilesExists
  \/ RestoreFilesExtract

(***************************************************************************)
(* Specifications.  Spec: one run of migrate(), the script not running.    *)
(* SpecBackup: one invocation of backup-restore.sh, no migration running.  *)
(***************************************************************************)
ShellIdle ==
  /\ live = EmptyStore
  /\ dbBackups = [n \in Names |-> NoFile]
  /\ safetyCopy = NoFile
  /\ service = "online"
  /\ sqliteInstalled = TRUE
  /\ schemaFile = TRUE
  /\ shPc = "exit"
  /\ shCmd = NoCommand
  /\ exitStatus = 0
  /\ live0 = live
  /\ service0 = service
  /\ checked = NoFile

MigratorIdle ==
  /\ source = [textbooks |-> <<>>, passagesets |-> <<>>, questions |-> <<>>,
               systemprompts |-> <<>>, versions |-> <<>>]
  /\ target = EmptyTarget
  /\ target0 = target
  /\ idMapping = [k \in SrcIds |-> Undefined]
  /\ pc = "Succeeded"
  /\ idx = 1
  /\ refIdx = 1
  /\ nextUuid = 0
  /\ failure = NoError
  /\ warnings = <<>>
  /\ mongoConn = "closed"
  /\ prismaConn = "closed"
  /\ closeCalls = [mongo |-> 1, prisma |-> 1]

Init == InitMigrator /\ ShellIdle /\ CleanupIdle /\ FirstRun /\ FilesIdle

Next == NextMigrator

Spec == Init /\ [][Next]_vars

InitBackup ==
  InitShell /\ MigratorIdle /\ CleanupIdle /\ FirstRun /\ FilesIdle

SpecBackup == InitBackup /\ [][NextShell]_vars

\* SpecRoundTrip: backup-restore.sh run MaxRuns times, each time with
\* backup --db-only or restore <name> --db-only.
SpecRoundTrip == InitBackup /\ [][NextRoundTrip]_vars

\* SpecFilesBackup: one invocation of backup-restore.sh backup --files-only
\* or backup --full.
InitFilesBackupOnly ==
  InitFilesBackup /\ MigratorIdle /\ CleanupIdle /\ FirstRun

SpecFilesBackup == InitFilesBackupOnly /\ [][NextFilesBackup]_vars

\* SpecCleanup: one invocation of backup-restore.sh cleanup [--dry-run].
InitCleanupOnly == InitCleanup /\ MigratorIdle /\ FilesIdle

SpecCleanup == InitCleanupOnly /\ [][NextCleanup]_vars

\* SpecRestore: one invocation of backup-restore.sh restore <name>, with
\* --files-only or with no scope option (full).
InitRestoreOnly == InitRestore /\ MigratorIdle /\ CleanupIdle /\ FirstRun

SpecRestore == InitRestoreOnly /\ [][NextRestore]_vars


(***************************************************************************)
(* Properties of the migration run.                                        *)
(***************************************************************************)
\* Rows of a table written by this run.
Written(table) == target[table] \ target0[table]

SourceCount(kind) ==
  CASE kind = "textbooks" -> Len(source.textbooks)
    [] kind = "passagesets" -> Len(source.passagesets)
    [] kind = "questions" -> Len(source.questions)
    [] kind = "systemprompts" -> Len(source.systemprompts)
    [] kind = "systempromptversions" -> Len(source.versions)

TargetCount(kind) ==
  CASE kind = "textbooks" -> Cardinality(target.textbook)
    [] kind = "passagesets" -> Cardinality(target.passageSet)
    [] kind = "questions" -> Cardinality(target.question)
    [] kind = "systemprompts" -> Cardinality(target.systemPrompt)
    [] kind = "systempromptversions" -> Cardinality(target.systemPromptVersion)

\* C1: a run that ends Failed on a write error or on a verification
\* mismatch leaves the target store as it was when the run started.
C1_FailedRunRestoresTarget ==
  (pc = "Failed" /\ failure.cause \in {"write", "verification"})
    => target = target0

\* C4: a run ends Succeeded only if, for each of the five entity kinds, the
\* source holds as many records as the target.
C4_SucceededOnlyIfAllCountsAgree ==
  pc = "Succeeded" => \A k \in Kinds : SourceCount(k) = TargetCount(k)

\* C5: the failure of a run that ended on a verification mismatch names
\* every mismatching kind and carries its source and target count.
C5_VerificationFailureNamesKind ==
  (pc = "Failed" /\ failure.cause = "verification")
    => \A k \in VerifiedKinds :
         SourceCount(k) # TargetCount(k)
           => /\ k \in failure.names
              /\ \E i \in DOMAIN failure.counts :
                   failure.counts[i] = <<k, SourceCount(k), TargetCount(k)>>

\* C6: in every state, every Question row written by the run references a
\* PassageSet row that exists in the target.
C6_QuestionsReferenceExistingPassageSet ==
  \A q \in Written("question") : q.setId \in Ids(target.passageSet)

\* A run that wrote a Question row and ended Succeeded.
C6_Witness ==
  /\ pc = "Succeeded"
  /\ Written("question") # {}

\* C7: a step of migrateQuestions on a Question whose setId has no mapping
\* writes no row, emits one warning, moves to the next Question and does
\* not fail the run.
C7_OrphanQuestionIsSkipped ==
  [][(/\ pc = "migrateQuestions"
      /\ idx <= Len(source.questions)
      /\ MapGet(idMapping, source.questions[idx]) = Undefined)
       => /\ target' = target
          /\ warnings' = Append(warnings,
                           [about |-> "questions", ref |-> source.questions[idx]])
          /\ idx' = idx + 1
          /\ pc' = "migrateQuestions"
          /\ failure' = NoError]_vars

\* An orphan was skipped and a later Question of the same run was written.
C7_Witness ==
  /\ pc = "migrateSystemPrompts"
  /\ \E i \in DOMAIN source.questions :
       /\ MapGet(idMapping, source.questions[i]) = Undefined
       /\ \E j \in DOMAIN source.questions :
            j > i /\ MapGet(idMapping, source.questions[j]) # Undefined
  /\ Written("question") # {}
  /\ warnings # <<>>

\* The positions <<p, r>> of textbooks[] entries establishRelationships has
\* gone through.
ProcessedRefs ==
  {<<p, r>> \in (1..MaxSrcId) \X (1..MaxSize) :
     /\ p \in DOMAIN source.passagesets
     /\ r \in DOMAIN source.passagesets[p].textbooks
     /\ \/ pc = "verifyMigration"
        \/ pc = "establishRelationships" /\ (p < idx \/ (p = idx /\ r < refIdx))}

LinkRow(p, r) ==
  [textbookId |-> MapGet(idMapping, source.passagesets[p].textbooks[r]),
   passageSetId |-> MapGet(idMapping, source.passagesets[p]._id)]

IsTextbookPassageSetPair(row) ==
  /\ row.textbookId \in Ids(target.textbook)
  /\ row.passageSetId \in Ids(target.passageSet)

\* C8: while and after the relationships are established no error has
\* propagated, and every (Textbook, PassageSet) pair gone through, however
\* often, has exactly one junction row.
C8_IdempotentLinking ==
  pc \in {"establishRelationships", "verifyMigration"}
    => /\ failure = NoError
       /\ \A pr \in ProcessedRefs :
            IsTextbookPassageSetPair(LinkRow(pr[1], pr[2]))
              => CountRows(target.passageSetTextbook, LinkRow(pr[1], pr[2])) = 1

\* The same pair was gone through twice.
C8_Witness ==
  /\ pc = "verifyMigration"
  /\ \E pr1 \in ProcessedRefs : \E pr2 \in ProcessedRefs :
       /\ pr1 # pr2
       /\ LinkRow(pr1[1], pr1[2]) = LinkRow(pr2[1], pr2[2])
       /\ IsTextbookPassageSetPair(LinkRow(pr1[1], pr1[2]))

\* The source identifier the next step of an import loop assigns.
NextAssigned ==
  CASE pc = "migrateTextbooks" /\ idx <= Len(source.textbooks)
         -> {source.textbooks[idx]}
    [] pc = "migratePassageSets" /\ idx <= Len(source.passagesets)
         -> {source.passagesets[idx]._id}
    [] OTHER -> {}

\* C9: assigning a target identifier to a source identifier that already
\* has one fails the run and leaves the recorded mapping in place.
C9_SecondAssignFails ==
  [][\A k \in NextAssigned :
       MapGet(idMapping, k) # Undefined
         => /\ idMapping' = idMapping
            /\ failure' # NoError]_vars

\* C10: a source identifier keeps the target identifier it was given, and
\* no two source identifiers share a target identifier.
C10_MappingStableAndInjective ==
  /\ [][\A k \in SrcIds :
          MapGet(idMapping, k) # Undefined
            => MapGet(idMapping', k) = MapGet(idMapping, k)]_vars
  /\ [](\A k1, k2 \in SrcIds :
          (MapGet(idMapping, k1) # Undefined
             /\ MapGet(idMapping, k1) = MapGet(idMapping, k2)) => k1 = k2)

(***************************************************************************)
(* Properties of backup-restore.sh.                                        *)
(***************************************************************************)
\* C2: restore rollback.  When restore_database has replaced the live store
\* and the consistency check of the replaced store fails (integrity_check
\* reports something other than ok), the restore ends with the live store
\* holding exactly its pre-restore content and with a failure status, so
\* the live store is never left on the store that failed the check.
C2_RestoreRollsBackInconsistentStore ==
  (/\ shPc = "exit"
   /\ shCmd.op = "restore_db"
   /\ checked # NoFile
   /\ ~Consistent(checked))
  => (live = live0 /\ exitStatus # 0)

\* C3: a corrupt database backup is never retained.  When a database backup
\* operation has finished and the fresh copy it made fails the consistency
\* check (integrity_check reports something other than ok), the copy is no
\* longer in the database backup category and the operation has failed.
C3_CorruptBackupNeverRetained ==
  (/\ shPc = "exit"
   /\ shCmd.op = "backup_db"
   /\ live # NoFile
   /\ checked = live
   /\ ~Consistent(checked))
  => (dbBackups[shCmd.name] = NoFile /\ exitStatus # 0)

(***************************************************************************)
(* Properties of the process outcome, the connections and the phase order. *)
(***************************************************************************)
\* The script ended a backup whose integrity check failed, or a restore
\* whose backup was missing, whose safety copy could not be made or whose
\* integrity check failed.
ShellFatalFailure ==
  /\ shPc = "exit"
  /\ \/ /\ shCmd.op = "backup_db"
        /\ checked # NoFile
        /\ ~IntegrityCheckPasses(checked)
     \/ /\ shCmd.op = "restore_db"
        /\ \/ dbBackups[shCmd.name] = NoFile
           \/ safetyCopy = NoFile
           \/ checked # NoFile /\ ~IntegrityCheckPasses(checked)

\* C14: exit status.  A migration run that ends Failed, a backup whose
\* consistency check fails and a restore that fails or is rolled back end
\* the process with a non-zero exit status; a migration run that ends
\* Succeeded ends it with status zero.
C14_FatalFailureExitsNonZero ==
  /\ pc = "Failed" => ProcessExitCode # 0
  /\ pc = "Succeeded" => ProcessExitCode = 0
  /\ ShellFatalFailure => exitStatus # 0

\* C15: on every run, Succeeded or Failed, the source connection and the
\* target connection have each been closed exactly once when the run ends,
\* and nothing is closed before the run has reached its end.
C15_ConnectionsClosedExactlyOnce ==
  /\ pc \in {"Succeeded", "Failed"} =>
       (closeCalls.mongo = 1 /\ closeCalls.prisma = 1)
  /\ (closeCalls.mongo > 0 \/ closeCalls.prisma > 0) =>
       pc \in {"Succeeded", "Failed"}

\* C16: a connection error is fatal before any write.  Once connecting to
\* the source or to the target has failed, the target store holds exactly
\* the rows it held when the run began, the run is on its way to Failed and
\* its next step ends it Failed without touching the target.
C16_ConnectionErrorBeforeAnyWrite ==
  /\ [](failure = ConnectionError =>
          (pc \in {"cleanup", "Failed"} /\ target = target0))
  /\ [][(failure = ConnectionError /\ pc = "cleanup") =>
          (pc' = "Failed" /\ target' = target0)]_vars

C16_Witness ==
  /\ pc = "Failed"
  /\ failure = ConnectionError
  /\ source.textbooks # <<>>

\* C17: a run ends Succeeded or Failed.  Succeeded is entered only by the
\* step after a verification that found no mismatch, with no error pending;
\* an error raised in any phase stays the error of the run and the run goes
\* to Failed; Failed always carries an error.
C17_TwoTerminalOutcomes ==
  /\ [](pc = "Succeeded" => (failure = NoError /\ ~CountMismatch(source, target)))
  /\ [](pc = "Failed" => failure # NoError)
  /\ [][failure # NoError =>
          (failure' = failure /\ pc' \in {"cleanup", "Failed"})]_vars
  /\ [][(pc \in {"Succeeded", "Failed"}) => (pc' = pc)]_vars

\* C18: import ordering.  A Question is written only in the Question phase,
\* which is entered only when the PassageSet loop has passed the last
\* PassageSet, itself entered only when the Textbook loop has passed the
\* last Textbook; a junction row is written only in the relationship phase,
\* entered only after the SystemPrompt and SystemPromptVersion loops have
\* finished in that order after the Questions; verification starts only
\* when the relationship loop has passed the last PassageSet.
PhaseEntered(phase, from, collection) ==
  (pc' = phase /\ pc # phase) => (pc = from /\ idx > Len(collection))

C18_ImportOrdering ==
  [][/\ target'.question # target.question => pc = "migrateQuestions"
     /\ target'.passageSetTextbook # target.passageSetTextbook =>
          pc = "establishRelationships"
     /\ PhaseEntered("migratePassageSets", "migrateTextbooks", source.textbooks)
     /\ PhaseEntered("migrateQuestions", "migratePassageSets",
                     source.passagesets)
     /\ PhaseEntered("migrateSystemPrompts", "migrateQuestions",
                     source.questions)
     /\ PhaseEntered("migrateSystemPromptVersions", "migrateSystemPrompts",
                     source.systemprompts)
     /\ PhaseEntered("establishRelationships", "migrateSystemPromptVersions",
                     source.versions)
     /\ PhaseEntered("verifyMigration", "establishRelationships",
                     source.passagesets)]_vars

C18_Witness ==
  /\ pc = "verifyMigration"
  /\ target.question # target0.question
  /\ target.passageSetTextbook # target0.passageSetTextbook

\* C19: safety copy before overwrite.  In a restore, every step that
\* changes the live store is taken with the safety copy holding the content
\* the live store had when the restore began, and when a restore that
\* overwrote the live store ends, the safety copy still holds that content.
C19_SafetyCopyBeforeOverwrite ==
  /\ [][(shCmd.op = "restore_db" /\ live' # live) =>
          (live0 # NoFile /\ safetyCopy = live0 /\ safetyCopy' = live0)]_vars
  /\ []((shPc = "exit" /\ shCmd.op = "restore_db" /\ checked # NoFile) =>
          (live0 # NoFile /\ safetyCopy = live0))

C19_Witness ==
  /\ shPc = "exit"
  /\ shCmd.op = "restore_db"
  /\ checked # NoFile
  /\ live # live0
  /\ safetyCopy = live0

(***************************************************************************)
(* Properties of cleanup_backups.                                          *)
(***************************************************************************)
\* The backups of a category kept by a cleanup are the n most recent ones
\* of those it held before.
KeptMostRecent(type, n) ==
  /\ backupDirs[type] \subseteq backupDirs0[type]
  /\ Cardinality(backupDirs[type]) = n
  /\ \A kept \in backupDirs[type] :
       \A deleted \in backupDirs0[type] \ backupDirs[type] : deleted < kept

\* C11: retention.  When a cleanup without --dry-run has gone through the
\* categories, each category holds exactly the min(k, N) most recent of the
\* k backups it held before, N = MAX_LOCAL_BACKUPS; a category that held
\* N + 5 backups has lost exactly its 5 oldest.
C11_CleanupKeepsMostRecent ==
  (shPc \in {"cleanup_cloud", "exit"} /\ shCmd.op = "cleanup"
     /\ shCmd.name # "--dry-run") =>
    \A type \in Range(BackupTypes) :
      /\ KeptMostRecent(type, Min(Cardinality(backupDirs0[type]),
                                  MAX_LOCAL_BACKUPS))
      /\ Cardinality(backupDirs0[type]) = MAX_LOCAL_BACKUPS + 5 =>
           backupDirs0[type] \ backupDirs[type] = 1..5

C11_Witness ==
  /\ shPc = "exit"
  /\ shCmd.op = "cleanup"
  /\ shCmd.name # "--dry-run"
  /\ Cardinality(backupDirs0["database"]) = MAX_LOCAL_BACKUPS + 5
  /\ Cardinality(backupDirs["database"]) = MAX_LOCAL_BACKUPS
  /\ Cardinality(backupDirs0["files"]) < MAX_LOCAL_BACKUPS
  /\ backupDirs0["files"] # {}

\* C12: dry-run cleanup deletes nothing.  At every point of a cleanup
\* invoked with --dry-run every category holds what it held before, and
\* when it ends the lines it has written name exactly the backups that a
\* cleanup without --dry-run deletes.
C12_DryRunDeletesNothing ==
  (shCmd.op = "cleanup" /\ shCmd.name = "--dry-run") =>
    /\ backupDirs = backupDirs0
    /\ shPc = "exit" =>
         reported =
           {tb \in Range(BackupTypes) \X (1..(MAX_LOCAL_BACKUPS + MaxOldBackups)) :
              /\ tb[2] \in backupDirs0[tb[1]]
              /\ Cardinality({x \in backupDirs0[tb[1]] : x > tb[2]})
                   >= MAX_LOCAL_BACKUPS}

C12_Witness ==
  /\ shPc = "exit"
  /\ shCmd.op = "cleanup"
  /\ shCmd.name = "--dry-run"
  /\ reported # {}
  /\ \E type \in Range(BackupTypes) :
       Cardinality(backupDirs0[type]) > MAX_LOCAL_BACKUPS

(***************************************************************************)
(* Properties of a backup followed by a restore.                           *)
(***************************************************************************)
\* C13: backup round-trip.  When a restore of a backup that an earlier run
\* made of a consistent store S has ended with status 0, over whatever live
\* store there was, the live store has the content of S (the same records)
\* and is consistent.
C13_BackupRoundTrip ==
  (/\ shPc = "exit"
   /\ shCmd.op = "restore_db"
   /\ exitStatus = 0
   /\ Consistent(backedUp[shCmd.name]))
  => (live = backedUp[shCmd.name] /\ Consistent(live))

(***************************************************************************)
(* Properties of backup --files-only and backup --full.                    *)
(***************************************************************************)
\* C20: a failure to back up the file assets is a warning, not a fatal
\* condition.  When a backup of scope files-only or full whose dependencies
\* are present has ended and $FILES_PATH could not be archived (it is
\* missing or unreadable), the exit status is 0.
C20_FilesBackupFailureNotFatal ==
  (/\ shPc = "exit"
   /\ shCmd.op \in {"backup_files", "backup_full"}
   /\ sqliteInstalled
   /\ filesDir # "readable")
  => exitStatus = 0

(***************************************************************************)
(* Properties of the run with respect to what the target held before.      *)
(***************************************************************************)
EntityTables ==
  {"textbook", "passageSet", "question", "systemPrompt", "systemPromptVersion"}

\* s is the beginning of t.
IsPrefix(s, t) ==
  /\ Len(s) <= Len(t)
  /\ \A i \in DOMAIN s : s[i] = t[i]

\* C21: the migration only adds to the target.  In every state of a run
\* every row and every junction row the target held before the run is still
\* there, unchanged, and no step of the run takes a row of any table away.
C21_MigrationOnlyAdds ==
  /\ [](/\ \A table \in EntityTables : target0[table] \subseteq target[table]
        /\ IsPrefix(target0.passageSetTextbook, target.passageSetTextbook))
  /\ [][/\ \A table \in EntityTables : target[table] \subseteq target'[table]
        /\ IsPrefix(target.passageSetTextbook, target'.passageSetTextbook)]_vars

\* A run over a target that held a Textbook, a PassageSet and the junction
\* row of the two has written a row of its own and has ended.
C21_Witness ==
  /\ pc \in {"Succeeded", "Failed"}
  /\ target0.textbook # {}
  /\ target0.passageSet # {}
  /\ target0.passageSetTextbook # <<>>
  /\ \E table \in EntityTables : Written(table) # {}

(***************************************************************************)
(* Properties of the verdict of verifyMigration.                           *)
(***************************************************************************)
\* Contents the junction table could have instead of the one it has: none,
\* or one row over identifiers the run draws.
JunctionContents ==
  {<<>>} \cup {<<[textbookId |-> Uuid(a), passageSetId |-> Uuid(a + 1)]>> :
                 a \in 1..MaxSrcId}

\* The same target with another content of the junction table.
WithJunction(t, rows) == [t EXCEPT !.passageSetTextbook = rows]

\* C23: the verdict of the verification does not depend on the junction
\* rows.  The step of verifyMigration passes exactly when the source and the
\* target agree on the number of Textbooks, PassageSets, Questions and
\* SystemPrompts, and in every state the verifier gives the same verdict on
\* the target as on the same target with any other junction content, so two
\* runs that differ only in their junction rows end alike.
C23_VerdictIgnoresJunctionRows ==
  /\ [](\A rows \in JunctionContents :
          CountMismatch(source, WithJunction(target, rows))
            = CountMismatch(source, target))
  /\ [][(pc = "verifyMigration")
          => ((pc' = "cleanup" /\ failure' = NoError)
                <=> \A k \in VerifiedKinds : SourceCount(k) = TargetCount(k))]_vars

\* A run whose source holds a link has written no junction row and has
\* ended Succeeded.
C23_Witness ==
  /\ pc = "Succeeded"
  /\ \E p \in DOMAIN source.passagesets : source.passagesets[p].textbooks # <<>>
  /\ target.passageSetTextbook = <<>>

(***************************************************************************)
(* Properties of establishRelationships.                                   *)
(***************************************************************************)
\* The junction rows the run has written.
WrittenLinks ==
  {target.passageSetTextbook[i] :
     i \in (Len(target0.passageSetTextbook) + 1)..Len(target.passageSetTextbook)}

\* C25: junction integrity.  Every junction row the run has written names a
\* Textbook row and a PassageSet row of the target; the resolver never makes
\* the run fail; when it gets to the links of a PassageSet that PassageSet
\* has been resolved, and a textbook reference the mapping does not resolve
\* is skipped with a warning, nothing written.
C25_JunctionIntegrity ==
  /\ [](\A row \in WrittenLinks : IsTextbookPassageSetPair(row))
  /\ []((pc = "establishRelationships" /\ idx <= Len(source.passagesets))
          => MapGet(idMapping, source.passagesets[idx]._id) # Undefined)
  /\ [][(pc = "establishRelationships")
          => (failure' = NoError
                /\ pc' \in {"establishRelationships", "verifyMigration"})]_vars
  /\ [][(/\ pc = "establishRelationships"
         /\ idx <= Len(source.passagesets)
         /\ refIdx <= Len(source.passagesets[idx].textbooks)
         /\ MapGet(idMapping, source.passagesets[idx].textbooks[refIdx])
              = Undefined)
          => (/\ target' = target
              /\ warnings' = Append(warnings,
                               [about |-> "textbooks",
                                ref |-> source.passagesets[idx].textbooks[refIdx]])
              /\ refIdx' = refIdx + 1)]_vars

\* The resolver has written the junction row of one link and has dropped
\* another link of the same PassageSet, and the run goes on to verification.
C25_Witness ==
  /\ pc = "verifyMigration"
  /\ WrittenLinks # {}
  /\ \E pr \in ProcessedRefs : LinkRow(pr[1], pr[2]) \notin WrittenLinks
  /\ failure = NoError

(***************************************************************************)
(* Properties of a run that ended Succeeded.                               *)
(***************************************************************************)
\* The table of the target that holds the records of a verified kind.
TableOf(kind) ==
  CASE kind = "textbooks" -> "textbook"
    [] kind = "passagesets" -> "passageSet"
    [] kind = "questions" -> "question"
    [] kind = "systemprompts" -> "systemPrompt"

PassageSetSourceIds ==
  {source.passagesets[i]._id : i \in DOMAIN source.passagesets}

\* C30: resolution respects entity kinds.  A Question whose setId is not the
\* source identifier of a PassageSet, even if it is that of a Textbook, is
\* skipped with a warning and the run goes on without an error; a textbook
\* reference that is not the source identifier of a Textbook, even if it is
\* that of a PassageSet, is skipped with a warning.
C30_ResolutionRespectsKinds ==
  /\ [][(/\ pc = "migrateQuestions"
         /\ idx <= Len(source.questions)
         /\ source.questions[idx] \notin PassageSetSourceIds)
          => (/\ target' = target
              /\ warnings' = Append(warnings,
                               [about |-> "questions",
                                ref |-> source.questions[idx]])
              /\ pc' = "migrateQuestions"
              /\ failure' = NoError)]_vars
  /\ [][(/\ pc = "establishRelationships"
         /\ idx <= Len(source.passagesets)
         /\ refIdx <= Len(source.passagesets[idx].textbooks)
         /\ source.passagesets[idx].textbooks[refIdx]
              \notin Range(source.textbooks))
          => (/\ target' = target
              /\ warnings' = Append(warnings,
                               [about |-> "textbooks",
                                ref |-> source.passagesets[idx].textbooks[refIdx]])
              /\ failure' = NoError)]_vars

(***************************************************************************)
(* The scenario of a source with 3 Textbooks, 2 PassageSets, 5 Questions   *)
(* and 1 orphan Question, imported into an empty target.                   *)
(***************************************************************************)
\* The _id of the Textbooks and of the PassageSets, and the setId of the
\* orphan Question, which is the _id of no document.
ScenarioTextbookIds == <<1, 2, 3>>

ScenarioPassageSetIds == <<4, 5>>

ScenarioOrphanRef == 6

ScenarioSrcIds ==
  Range(ScenarioTextbookIds) \cup Range(ScenarioPassageSetIds)
    \cup {ScenarioOrphanRef}

\* The first PassageSet is linked to two of the Textbooks, the second to none.
ScenarioPassageSets ==
  {<<[_id |-> ScenarioPassageSetIds[1], qrCode |-> ScenarioPassageSetIds[1],
      textbooks |-> <<a, b>>],
     [_id |-> ScenarioPassageSetIds[2], qrCode |-> ScenarioPassageSetIds[2],
      textbooks |-> <<>>]>> :
     <<a, b>> \in {p \in Range(ScenarioTextbookIds) \X Range(ScenarioTextbookIds) :
                     p[1] # p[2]}}

\* Five Questions of the two PassageSets and the orphan, in any order.
ScenarioQuestions ==
  {q \in [1..6 -> ScenarioSrcIds] :
     /\ Cardinality({i \in 1..6 : q[i] = ScenarioOrphanRef}) = 1
     /\ \A i \in 1..6 :
          q[i] \in Range(ScenarioPassageSetIds) \cup {ScenarioOrphanRef}}

InitScenario ==
  /\ \E ps \in ScenarioPassageSets :
     \E q \in ScenarioQuestions :
     \E sp \in SeqsUpTo({1}, 1) :
     \E n \in 0..1 :
       source = [textbooks |-> ScenarioTextbookIds, passagesets |-> ps,
                 questions |-> q, systemprompts |-> sp,
                 versions |-> [i \in 1..n |-> i]]
  /\ target = EmptyTarget
  /\ target0 = target
  /\ idMapping = [k \in ScenarioSrcIds |-> Undefined]
  /\ pc = "NotStarted"
  /\ idx = 1
  /\ refIdx = 1
  /\ nextUuid = 0
  /\ failure = NoError
  /\ warnings = <<>>
  /\ mongoConn = "new"
  /\ prismaConn = "new"
  /\ closeCalls = [mongo |-> 0, prisma |-> 0]

\* SpecScenario: one run of the migrator on the scenario.
InitScenarioOnly ==
  InitScenario /\ ShellIdle /\ CleanupIdle /\ FirstRun /\ FilesIdle

SpecScenario == InitScenarioOnly /\ [][NextMigrator]_vars

\* The kinds on which the verifier finds the two sides to differ.
MismatchingKinds ==
  {k \in VerifiedKinds : MongoStats(source)[k] # SqliteStats(target)[k]}

\* C24: the concrete scenario.  No write of the run fails; a run that gets
\* to the verification has written exactly 3 Textbook rows, 2 PassageSet
\* rows, 5 Question rows and 2 junction rows and has skipped, with a warning,
\* exactly the orphan Question; the verification then fails, the Question
\* count being the only one that differs; no run ends Succeeded.
C24_ConcreteScenario ==
  /\ [](failure.cause # "write")
  /\ [](pc = "verifyMigration"
          => /\ Cardinality(Written("textbook")) = 3
             /\ Cardinality(Written("passageSet")) = 2
             /\ Cardinality(Written("question")) = 5
             /\ Len(target.passageSetTextbook) = 2
             /\ \A row \in WrittenLinks : IsTextbookPassageSetPair(row)
             /\ warnings = <<[about |-> "questions", ref |-> ScenarioOrphanRef]>>
             /\ MismatchingKinds = {"questions"})
  /\ [][(pc = "verifyMigration")
          => (pc' = "cleanup" /\ failure' = VerificationError)]_vars
  /\ [](pc # "Succeeded")
  /\ []((pc = "Failed" /\ failure.cause = "verification")
          => (Cardinality(target.question) = 5 /\ Len(source.questions) = 6))

\* A run on the scenario has ended Failed on the verification.
C24_Witness ==
  /\ pc = "Failed"
  /\ failure = VerificationError
  /\ Len(source.textbooks) = 3
  /\ Len(source.questions) = 6
  /\ Cardinality(target.question) = 5
  /\ Len(target.passageSetTextbook) = 2

(***************************************************************************)
(* Properties of the API service across restore_database.                  *)
(***************************************************************************)
\* C28: when the script has terminated after a restore_database that found
\* the API service online, and so stopped it if it got to pm2 stop, the
\* service is online again, on every path, the one on which the safety copy
\* fails included.
C28_StoppedServiceIsRestarted ==
  (/\ shPc = "exit"
   /\ shCmd.op = "restore_db"
   /\ service0 = "online")
  => service = "online"

(***************************************************************************)
(* Properties of backup --full.                                            *)
(***************************************************************************)
\* The script has reported the full backup as created.
FullBackupReported ==
  \E i \in DOMAIN backupPath :
    backupPath[i] = LogLine("SUCCESS", "Full backup created")

\* C22: a full backup that has ended and is reported as created has made one
\* bundle that holds the verified database copy and the metadata record,
\* and the files archive too when one was produced.
C22_FullBundleComplete ==
  (/\ shPc = "exit"
   /\ shCmd.op = "backup_full"
   /\ FullBackupReported)
  => /\ fullBackups[shCmd.name].exists
     /\ {"database", "metadata"} \subseteq fullBackups[shCmd.name].members
     /\ dbBackups[shCmd.name] # NoFile
     /\ filesBackups[shCmd.name] # "none"
          => filesBackups[shCmd.name] \in fullBackups[shCmd.name].members

\* C26: when the consistency check of the database copy has failed during a
\* full backup, the full backup fails as a whole: at the end there is no
\* bundle, no success is reported and the exit status is not 0.
C26_FailedCheckFailsFullBackup ==
  (/\ shPc = "exit"
   /\ shCmd.op = "backup_full"
   /\ checked # NoFile
   /\ ~IntegrityCheckPasses(checked))
  => /\ ~fullBackups[shCmd.name].exists
     /\ ~FullBackupReported
     /\ exitStatus # 0

(***************************************************************************)
(* Properties of a full restore.                                           *)
(***************************************************************************)
\* restore_database took its success branch: the live store was replaced by
\* the backup and the replaced store passed the check.
DatabaseReplaced == checked # NoFile /\ IntegrityCheckPasses(checked)

\* C27: a restore of scope full is all-or-nothing.  When it has ended,
\* either the live store was replaced by the chosen backup and the file
\* assets are those of the chosen files archive, or the live store is the
\* one from before the restore and the file assets were not replaced.
C27_FullRestoreAllOrNothing ==
  (shPc = "exit" /\ shCmd.op = "restore_full")
    => \/ DatabaseReplaced /\ filesDir = "restored"
       \/ ~DatabaseReplaced /\ live = live0 /\ filesDir # "restored"

====
